---- MODULE Spec2Model ----
(***************************************************************************)
(* Hotel management: room catalog, customer directory, reservation ledger. *)
(* Three menu loops are modelled over the same state:                      *)
(*   Spec      src/functional/hotel.py main(): rooms and bookings          *)
(*   SpecMain  src/functional/main.py main(): with the customer directory  *)
(*   SpecFlag  src/functional/Concepts_Builtin/hotel.py and                *)
(*             src/functional/Concepts_JsonFile/Concepts_JsonFile/hotel.py *)
(* The functions of src/functional/hotel.py that only read the state are   *)
(* applied to every catalog and ledger of a bounded size:                  *)
(*   SpecCatalog  update_room_availability, occupancy rate and report      *)
(*   SpecLedger   overlap test, period filter, reservation summary         *)
(*   SpecBill     generate_bill                                            *)
(*   SpecRevenue  generate_revenue_report                                  *)
(* SpecDesk is the menu of Spec with the customer directory added.         *)
(* Further runs of the menu of Spec:                                       *)
(*   SpecRaw   any pair of dates typed at Add Reservation                  *)
(*   SpecOpen  every room created available                                *)
(*   SpecStop  a run may stop between the two saves of Add Reservation     *)
(*   SpecMenu  SpecDesk with the read-only choices (bill, reports)         *)
(* SpecFlagLedger applies the period filter of the flag-gated variants.    *)
(* SpecReport applies their daily, weekly and monthly reports, SpecBillMenu *)
(* the Generate Bill choice of the three menus.                            *)
(* SpecImperative is class Reservation of src/imperative concepts.         *)
(* Dates are ISO YYYY-MM-DD strings compared lexicographically by the      *)
(* code; they are modelled as day numbers, which order the same way.       *)
(***************************************************************************)
EXTENDS Integers, Sequences, FiniteSets, TLC

\* ---------------------------------------------------------------- bounds
MaxRoom == 2
MaxDay == 2
MaxRes == 2
MaxCust == 1
MaxCatalog == 2

RoomNumbers == 1..MaxRoom
Dates == 1..MaxDay
Names == {"Alice", "Bob"}
Guests == {"Alice"}
RoomTypes == {"single"}
Prices == {100}

\* Python's None
None == [none |-> TRUE]

Tail2(s) == SubSeq(s, 2, Len(s))

\* ------------------------------------------------- src/functional/hotel.py
create_room(room_number, room_type, price, available) ==
    [roomNumber |-> room_number, roomType |-> room_type,
     price |-> price, available |-> available]

create_reservation(customer_name, room_number, dates) ==
    [customerName |-> customer_name, roomNumber |-> room_number, dates |-> dates]

\* variant: rooms that do not match are left out of the result
RECURSIVE update_room_availability_drop(_, _, _)
update_room_availability_drop(rs, room_number, availability) ==
    IF rs = <<>> THEN <<>>
    ELSE IF rs[1].roomNumber = room_number
         THEN <<[rs[1] EXCEPT !.available = availability]>>
                  \o update_room_availability_drop(Tail2(rs), room_number, availability)
         ELSE update_room_availability_drop(Tail2(rs), room_number, availability)

\* variant: the flag is set on every room, whatever its number
RECURSIVE update_room_availability_all(_, _, _)
update_room_availability_all(rs, room_number, availability) ==
    IF rs = <<>> THEN <<>>
    ELSE <<[rs[1] EXCEPT !.available = availability]>>
             \o update_room_availability_all(Tail2(rs), room_number, availability)

RECURSIVE update_room_availability(_, _, _)
update_room_availability(rs, room_number, availability) ==
    IF rs = <<>> THEN <<>>
    ELSE IF rs[1].roomNumber = room_number
         THEN <<[rs[1] EXCEPT !.available = availability]>>
                  \o update_room_availability(Tail2(rs), room_number, availability)
         ELSE <<rs[1]>> \o update_room_availability(Tail2(rs), room_number, availability)

\* variant: the last room of that number is returned
RECURSIVE check_room_status_last(_, _)
check_room_status_last(rs, room_number) ==
    IF rs = <<>> THEN None
    ELSE IF rs[Len(rs)].roomNumber = room_number THEN rs[Len(rs)]
         ELSE check_room_status_last(SubSeq(rs, 1, Len(rs) - 1), room_number)

\* variant: the first room of the catalog is returned, whatever its number
check_room_status_first(rs, room_number) ==
    IF rs = <<>> THEN None ELSE rs[1]

RECURSIVE check_room_status(_, _)
check_room_status(rs, room_number) ==
    IF rs = <<>> THEN None
    ELSE IF rs[1].roomNumber = room_number THEN rs[1]
         ELSE check_room_status(Tail2(rs), room_number)

\* variant: every room of the catalog is released
release_room_all(rs, room_number) == update_room_availability_all(rs, room_number, TRUE)

release_room(rs, room_number) == update_room_availability(rs, room_number, TRUE)

RECURSIVE check_if_room_exists(_, _)
check_if_room_exists(rs, room_number) ==
    IF rs = <<>> THEN FALSE
    ELSE IF rs[1].roomNumber = room_number THEN TRUE
         ELSE check_if_room_exists(Tail2(rs), room_number)

\* variant: only the requested start date is tested against each reservation
RECURSIVE check_reservations_start_only(_, _, _)
check_reservations_start_only(res, start_date, end_date) ==
    IF res = <<>> THEN TRUE
    ELSE IF ~(start_date < res[1].dates[1] \/ start_date > res[1].dates[2])
         THEN FALSE
         ELSE check_reservations_start_only(Tail2(res), start_date, end_date)

\* variant: only the first reservation of the ledger is tested
check_reservations_first_only(res, start_date, end_date) ==
    IF res = <<>> THEN TRUE
    ELSE end_date < res[1].dates[1] \/ start_date > res[1].dates[2]

\* variant: a range that only touches a reservation at a bound is let through
RECURSIVE check_reservations_exclusive(_, _, _)
check_reservations_exclusive(res, start_date, end_date) ==
    IF res = <<>> THEN TRUE
    ELSE IF ~(end_date <= res[1].dates[1] \/ start_date >= res[1].dates[2])
         THEN FALSE
         ELSE check_reservations_exclusive(Tail2(res), start_date, end_date)

\* the inner recursion of is_room_available_for_period: every reservation of
\* the ledger is compared, whatever its roomNumber
RECURSIVE check_reservations(_, _, _)
check_reservations(res, start_date, end_date) ==
    IF res = <<>> THEN TRUE
    ELSE IF ~(end_date < res[1].dates[1] \/ start_date > res[1].dates[2])
         THEN FALSE
         ELSE check_reservations(Tail2(res), start_date, end_date)

is_room_available_for_period(rs, room_number, start_date, end_date, res) ==
    IF check_room_status(rs, room_number) # None
    THEN check_reservations(res, start_date, end_date)
    ELSE FALSE

\* variant: the room's available flag gates the booking as well
add_reservation_flag_gated(res, rs, reservation) ==
    IF check_room_status(rs, reservation.roomNumber) # None
       /\ check_room_status(rs, reservation.roomNumber).available
    THEN IF ~is_room_available_for_period(rs, reservation.roomNumber,
                 reservation.dates[1], reservation.dates[2], res)
         THEN None
         ELSE [reservations |-> res \o <<reservation>>,
               rooms |-> update_room_availability(rs, reservation.roomNumber, FALSE)]
    ELSE None

\* variant: the room's existence is not checked
add_reservation_any_room(res, rs, reservation) ==
    IF check_reservations(res, reservation.dates[1], reservation.dates[2])
    THEN [reservations |-> res \o <<reservation>>,
          rooms |-> update_room_availability(rs, reservation.roomNumber, FALSE)]
    ELSE None

\* variant: a booking flags every room of the catalog
add_reservation_all_rooms(res, rs, reservation) ==
    IF check_room_status(rs, reservation.roomNumber) # None
    THEN IF ~is_room_available_for_period(rs, reservation.roomNumber,
                 reservation.dates[1], reservation.dates[2], res)
         THEN None
         ELSE [reservations |-> res \o <<reservation>>,
               rooms |-> update_room_availability_all(rs, reservation.roomNumber, FALSE)]
    ELSE None

add_reservation(res, rs, reservation) ==
    IF check_room_status(rs, reservation.roomNumber) # None
    THEN IF ~is_room_available_for_period(rs, reservation.roomNumber,
                 reservation.dates[1], reservation.dates[2], res)
         THEN None
         ELSE [reservations |-> res \o <<reservation>>,
               rooms |-> update_room_availability(rs, reservation.roomNumber, FALSE)]
    ELSE None

\* variant: the new customer is put in front of the directory
add_customer_front(cs, name, contact_info, payment_method) ==
    <<[name |-> name, contactInfo |-> contact_info,
       paymentMethod |-> payment_method]>> \o cs

add_customer(cs, name, contact_info, payment_method) ==
    cs \o <<[name |-> name, contactInfo |-> contact_info,
             paymentMethod |-> payment_method]>>

RECURSIVE search_customer(_, _)
search_customer(cs, name) ==
    IF cs = <<>> THEN None
    ELSE IF cs[1].name = name THEN cs[1]
         ELSE search_customer(Tail2(cs), name)

\* variant: a range touching the period only at a bound is left out
overlaps_strict(reservation, start_date, end_date) ==
    ~(reservation.dates[2] <= start_date \/ reservation.dates[1] >= end_date)

\* the inner function of filter_reservations_by_period; start_date and
\* end_date are the variables it closes over
overlaps(reservation, start_date, end_date) ==
    ~(reservation.dates[2] < start_date \/ reservation.dates[1] > end_date)

\* variant: a selected reservation is put after the ones selected behind it
RECURSIVE filter_reservations_by_period_reversed(_, _, _)
filter_reservations_by_period_reversed(res, start_date, end_date) ==
    IF res = <<>> THEN <<>>
    ELSE IF overlaps(res[1], start_date, end_date)
         THEN filter_reservations_by_period_reversed(Tail2(res), start_date, end_date)
                  \o <<res[1]>>
         ELSE filter_reservations_by_period_reversed(Tail2(res), start_date, end_date)

RECURSIVE filter_reservations_by_period(_, _, _)
filter_reservations_by_period(res, start_date, end_date) ==
    IF res = <<>> THEN <<>>
    ELSE IF overlaps(res[1], start_date, end_date)
         THEN <<res[1]>> \o filter_reservations_by_period(Tail2(res), start_date, end_date)
         ELSE filter_reservations_by_period(Tail2(res), start_date, end_date)

\* Money: prices, days and additional_services are whole numbers; tax_rate,
\* discount and every bill are floats, carried here in hundredths (the float
\* times 100) so that the arithmetic stays exact. In hundredths
\*   total_cost + total_cost * tax_rate - total_cost * discount
\* is 100 * total_cost + total_cost * tax_rate - total_cost * discount.

\* a float returned where None may be returned instead
Amount(v) == [amount |-> v]

\* Concepts_Builtin and Concepts_JsonFile: the discount is taken off as given
calculate_bill(room_price, days, additional_services, tax_rate, discount) ==
    LET subtotal == (room_price * days) + additional_services
        tax == subtotal * tax_rate
    IN  (100 * subtotal) + tax - discount

\* variant: the discount is taken off as an amount, not as a share of the cost
RECURSIVE generate_bill_amount_off(_, _, _, _, _, _, _)
generate_bill_amount_off(res, rs, room_number, days, additional_services, tax_rate, discount) ==
    IF res = <<>> THEN None
    ELSE IF res[1].roomNumber = room_number
            /\ check_room_status(rs, room_number) # None
         THEN LET room_price == check_room_status(rs, room_number).price
                  total_cost == (room_price * days) + additional_services
                  tax == total_cost * tax_rate
              IN  Amount((100 * total_cost) + tax - discount)
         ELSE generate_bill_amount_off(Tail2(res), rs, room_number, days,
                                       additional_services, tax_rate, discount)

\* variant: only the first reservation of the ledger is looked at
generate_bill_first_only(res, rs, room_number, days, additional_services, tax_rate, discount) ==
    IF res = <<>> THEN None
    ELSE IF res[1].roomNumber = room_number
            /\ check_room_status(rs, room_number) # None
         THEN LET room_price == check_room_status(rs, room_number).price
                  total_cost == (room_price * days) + additional_services
                  tax == total_cost * tax_rate
                  discount_amount == total_cost * discount
              IN  Amount((100 * total_cost) + tax - discount_amount)
         ELSE None

\* a reservation of the room whose room is missing from the catalog falls
\* through to the recursive call, like a reservation of another room
RECURSIVE generate_bill(_, _, _, _, _, _, _)
generate_bill(res, rs, room_number, days, additional_services, tax_rate, discount) ==
    IF res = <<>> THEN None
    ELSE IF res[1].roomNumber = room_number
            /\ check_room_status(rs, room_number) # None
         THEN LET room_price == check_room_status(rs, room_number).price
                  total_cost == (room_price * days) + additional_services
                  tax == total_cost * tax_rate
                  discount_amount == total_cost * discount
              IN  Amount((100 * total_cost) + tax - discount_amount)
         ELSE generate_bill(Tail2(res), rs, room_number, days,
                            additional_services, tax_rate, discount)

\* a float quotient, kept exact as numerator over denominator
Quotient(n, d) == [num |-> n, den |-> d]

\* variant: the rooms counted are the available ones
RECURSIVE room_occupancy_rate_available(_, _, _)
room_occupancy_rate_available(rs, occupied_count, total_rooms) ==
    IF rs = <<>>
    THEN IF total_rooms > 0 THEN Quotient(occupied_count, total_rooms)
         ELSE Quotient(0, 1)
    ELSE room_occupancy_rate_available(Tail2(rs),
             IF rs[1].available THEN occupied_count + 1 ELSE occupied_count,
             total_rooms + 1)

\* called as room_occupancy_rate(rooms): both counters default to 0
RECURSIVE room_occupancy_rate(_, _, _)
room_occupancy_rate(rs, occupied_count, total_rooms) ==
    IF rs = <<>>
    THEN IF total_rooms > 0 THEN Quotient(occupied_count, total_rooms)
         ELSE Quotient(0, 1)
    ELSE room_occupancy_rate(Tail2(rs),
             IF ~rs[1].available THEN occupied_count + 1 ELSE occupied_count,
             total_rooms + 1)

\* variant: every reservation counts as one more guest
RECURSIVE reservation_summary_per_booking(_, _, _)
reservation_summary_per_booking(res, unique_guests, total_reservations) ==
    IF res = <<>>
    THEN [totalReservations |-> total_reservations,
          uniqueGuests |-> total_reservations]
    ELSE reservation_summary_per_booking(Tail2(res),
             unique_guests \cup {res[1].customerName}, total_reservations + 1)

\* called as reservation_summary(reservations): unique_guests defaults to a
\* new empty set, total_reservations to 0
RECURSIVE reservation_summary(_, _, _)
reservation_summary(res, unique_guests, total_reservations) ==
    IF res = <<>>
    THEN [totalReservations |-> total_reservations,
          uniqueGuests |-> Cardinality(unique_guests)]
    ELSE reservation_summary(Tail2(res),
             unique_guests \cup {res[1].customerName}, total_reservations + 1)

\* sum(1 for room in rooms if not room['available'])
RECURSIVE occupied_rooms(_)
occupied_rooms(rs) ==
    IF rs = <<>> THEN 0
    ELSE (IF ~rs[1].available THEN 1 ELSE 0) + occupied_rooms(Tail2(rs))

generate_occupancy_report(rs) ==
    [totalRooms |-> Len(rs),
     occupiedRooms |-> occupied_rooms(rs),
     occupancyRate |-> IF Len(rs) > 0 THEN Quotient(occupied_rooms(rs) * 100, Len(rs))
                       ELSE Quotient(0, 1)]

\* variant: the nights between the two dates, without the + 1
RECURSIVE generate_revenue_report_nights(_, _, _, _, _)
generate_revenue_report_nights(rs, res, start_date, end_date, revenue) ==
    IF res = <<>> THEN revenue
    ELSE IF ~(res[1].dates[2] < start_date \/ res[1].dates[1] > end_date)
            /\ check_room_status(rs, res[1].roomNumber) # None
         THEN LET room_price == check_room_status(rs, res[1].roomNumber).price
                  days == res[1].dates[2] - res[1].dates[1]
              IN  generate_revenue_report_nights(rs, Tail2(res), start_date, end_date,
                                                 revenue + (room_price * days))
         ELSE generate_revenue_report_nights(rs, Tail2(res), start_date, end_date,
                                             revenue)

\* the for loop over reservations, revenue being its accumulator (0.0 at the
\* call); the difference of two dates in days is the difference of their day
\* numbers
RECURSIVE generate_revenue_report(_, _, _, _, _)
generate_revenue_report(rs, res, start_date, end_date, revenue) ==
    IF res = <<>> THEN revenue
    ELSE IF ~(res[1].dates[2] < start_date \/ res[1].dates[1] > end_date)
            /\ check_room_status(rs, res[1].roomNumber) # None
         THEN LET room_price == check_room_status(rs, res[1].roomNumber).price
                  days == (res[1].dates[2] - res[1].dates[1]) + 1
              IN  generate_revenue_report(rs, Tail2(res), start_date, end_date,
                                          revenue + (room_price * days))
         ELSE generate_revenue_report(rs, Tail2(res), start_date, end_date, revenue)

\* ------------------------------------------------------------------ state
VARIABLES
    rooms,              \* main(): rooms tuple
    customers,          \* main(): customers tuple
    reservations,       \* main(): reservations tuple
    rooms_json,         \* contents of rooms.json / room.json
    customers_json,     \* contents of customers.json
    reservations_json,  \* contents of reservations.json
    last,               \* the menu branch just run and how it ended
    booked              \* every (room, range) a booking has succeeded for

vars == <<rooms, customers, reservations, rooms_json, customers_json,
          reservations_json, last, booked>>

\* what the menu reports of a branch: the operation, its outcome, and for a
\* release the room number it names
Call(op, n, result) == [op |-> op, roomNumber |-> n, result |-> result]

\* the date pairs typed at the menu: DateRanges (start <= end), and any pair
\* of dates, which the menu accepts as well
Ranges == {d \in Dates \X Dates : d[1] <= d[2]}
RawRanges == Dates \X Dates

\* every booking request the menu can build from its inputs
Requests(cs, ds) ==
    {create_reservation(c, n, d) : c \in cs, n \in RoomNumbers, d \in ds}

\* load_from_json returns [] for a missing file: first run
Init ==
    /\ rooms = <<>>
    /\ customers = <<>>
    /\ reservations = <<>>
    /\ rooms_json = <<>>
    /\ customers_json = <<>>
    /\ reservations_json = <<>>
    /\ last = Call("start", 0, "none")
    /\ booked = {}

\* ------------------------------ src/functional/hotel.py main(): menu loop
\* choice '1'
CreateRoom(n, t, p, a) ==
    /\ IF check_if_room_exists(rooms, n)
       THEN /\ UNCHANGED <<rooms, rooms_json>>
            /\ last' = Call("create_room", 0, "exists")
       ELSE /\ rooms' = rooms \o <<create_room(n, t, p, a)>>
            /\ rooms_json' = rooms'
            /\ last' = Call("create_room", 0, "ok")
    /\ UNCHANGED <<customers, reservations, customers_json, reservations_json, booked>>

\* the part of choice '3' after the call: a truthy result is assigned and saved
StoreResult(result, reservation) ==
    IF result # None
    THEN /\ reservations' = result.reservations
         /\ rooms' = result.rooms
         /\ reservations_json' = reservations'
         /\ rooms_json' = rooms'
         /\ last' = Call("add_reservation", 0, "ok")
         /\ booked' = booked \cup {[roomNumber |-> reservation.roomNumber,
                                    dates |-> reservation.dates]}
    ELSE /\ UNCHANGED <<reservations, rooms, reservations_json, rooms_json, booked>>
         /\ last' = Call("add_reservation", 0, "refused")

\* choice '3'
AddReservation(c, n, s, e) ==
    LET reservation == create_reservation(c, n, <<s, e>>)
        result == add_reservation(reservations, rooms, reservation)
    IN  /\ result # None => Len(reservations) < MaxRes
        /\ StoreResult(result, reservation)
        /\ UNCHANGED <<customers, customers_json>>

\* choice '4'
AddCustomer(name) ==
    /\ Len(customers) < MaxCust
    /\ customers' = add_customer(customers, name, "contact", "card")
    /\ customers_json' = customers'
    /\ last' = Call("add_customer", 0, "ok")
    /\ UNCHANGED <<rooms, reservations, rooms_json, reservations_json, booked>>

\* choice '5'
ReleaseRoom(n) ==
    /\ rooms' = release_room(rooms, n)
    /\ rooms_json' = rooms'
    /\ last' = Call("release_room", n, "ok")
    /\ UNCHANGED <<customers, reservations, customers_json, reservations_json, booked>>

Next ==
    \/ \E n \in RoomNumbers, t \in RoomTypes, p \in Prices, a \in BOOLEAN :
           CreateRoom(n, t, p, a)
    \/ \E c \in Guests, n \in RoomNumbers, d \in Ranges :
           AddReservation(c, n, d[1], d[2])
    \/ \E n \in RoomNumbers : ReleaseRoom(n)

Spec == Init /\ [][Next]_vars

\* the same menu fed with any pair of dates
NextRaw ==
    \/ \E n \in RoomNumbers, t \in RoomTypes, p \in Prices, a \in BOOLEAN :
           CreateRoom(n, t, p, a)
    \/ \E c \in Guests, n \in RoomNumbers, d \in RawRanges :
           AddReservation(c, n, d[1], d[2])
    \/ \E n \in RoomNumbers : ReleaseRoom(n)

SpecRaw == Init /\ [][NextRaw]_vars

\* choice '3' when the program stops after save_to_json("reservations.json")
\* and before save_to_json("rooms.json"), and main() is run again: the three
\* collections are loaded from the files
AddReservationStopped(c, n, s, e) ==
    LET reservation == create_reservation(c, n, <<s, e>>)
        result == add_reservation(reservations, rooms, reservation)
    IN  /\ result # None
        /\ Len(reservations) < MaxRes
        /\ reservations_json' = result.reservations
        /\ UNCHANGED <<rooms_json, customers_json>>
        /\ rooms' = rooms_json
        /\ customers' = customers_json
        /\ reservations' = reservations_json'
        /\ last' = Call("add_reservation", 0, "stopped")
        /\ booked' = booked \cup {[roomNumber |-> n, dates |-> <<s, e>>]}

NextStop ==
    \/ Next
    \/ \E c \in Guests, n \in RoomNumbers, d \in Ranges :
           AddReservationStopped(c, n, d[1], d[2])

SpecStop == Init /\ [][NextStop]_vars

\* the same menu when every room is created with 'yes' typed at "Is the room
\* available?"
NextOpen ==
    \/ \E n \in RoomNumbers, t \in RoomTypes, p \in Prices : CreateRoom(n, t, p, TRUE)
    \/ \E c \in Guests, n \in RoomNumbers, d \in Ranges :
           AddReservation(c, n, d[1], d[2])
    \/ \E n \in RoomNumbers : ReleaseRoom(n)

SpecOpen == Init /\ [][NextOpen]_vars

\* the same menu with choice '4', the customer directory
NextDesk ==
    \/ Next
    \/ \E name \in Guests : AddCustomer(name)

SpecDesk == Init /\ [][NextDesk]_vars

\* ------------------------------- src/functional/main.py main(): menu loop
\* called by main.py option 3; src/functional/hotel.py does not define it.
\* Modelled from the booking contract: a booking needs a registered customer,
\* then goes through add_reservation.
add_reservation_if_customer_exists(res, rs, cs, reservation) ==
    IF search_customer(cs, reservation.customerName) = None
    THEN None
    ELSE add_reservation(res, rs, reservation)

MainCreateRoom(n, t, p, a) == CreateRoom(n, t, p, a)

MainAddReservation(c, n, s, e) ==
    LET reservation == create_reservation(c, n, <<s, e>>)
        result == add_reservation_if_customer_exists(reservations, rooms,
                                                     customers, reservation)
    IN  /\ result # None => Len(reservations) < MaxRes
        /\ StoreResult(result, reservation)
        /\ UNCHANGED <<customers, customers_json>>

MainAddCustomer(name) == AddCustomer(name)

MainReleaseRoom(n) == ReleaseRoom(n)

NextMain ==
    \/ \E n \in RoomNumbers, t \in RoomTypes, p \in Prices, a \in BOOLEAN :
           MainCreateRoom(n, t, p, a)
    \/ \E c \in Names, n \in RoomNumbers, d \in Ranges :
           MainAddReservation(c, n, d[1], d[2])
    \/ \E name \in Names : MainAddCustomer(name)
    \/ \E n \in RoomNumbers : MainReleaseRoom(n)

SpecMain == Init /\ [][NextMain]_vars

\* ---- src/functional/Concepts_Builtin/hotel.py, Concepts_JsonFile/.../hotel.py
\* add_reservation of the flag-gated variants: the room's flag is the gate
flag_add_reservation(res, rs, reservation) ==
    LET room == check_room_status(rs, reservation.roomNumber)
    IN  IF room # None /\ room.available
        THEN [reservations |-> res \o <<reservation>>,
              rooms |-> update_room_availability(rs, reservation.roomNumber, FALSE)]
        ELSE None

\* filter_reservations_by_period of the flag-gated variants: custom_filter
\* (Concepts_Builtin) and filter() (Concepts_JsonFile) keep, in order, the
\* reservations satisfying the condition, which tests the start date alone
condition(reservation, start_date, end_date) ==
    start_date <= reservation.dates[1] /\ reservation.dates[1] <= end_date

RECURSIVE flag_filter_reservations_by_period(_, _, _)
flag_filter_reservations_by_period(res, start_date, end_date) ==
    IF res = <<>> THEN <<>>
    ELSE IF condition(res[1], start_date, end_date)
         THEN <<res[1]>> \o flag_filter_reservations_by_period(Tail2(res), start_date, end_date)
         ELSE flag_filter_reservations_by_period(Tail2(res), start_date, end_date)

\* choice 1: no duplicate check
FlagCreateRoom(n, t, p, a) ==
    /\ Len(rooms) < MaxCatalog
    /\ rooms' = rooms \o <<create_room(n, t, p, a)>>
    /\ rooms_json' = rooms'
    /\ last' = Call("create_room", 0, "ok")
    /\ UNCHANGED <<customers, reservations, customers_json, reservations_json, booked>>

\* choice 3
FlagAddReservation(c, n, s, e) ==
    LET reservation == create_reservation(c, n, <<s, e>>)
        result == flag_add_reservation(reservations, rooms, reservation)
    IN  /\ result # None => Len(reservations) < MaxRes
        /\ StoreResult(result, reservation)
        /\ UNCHANGED <<customers, customers_json>>

\* choice 8
FlagReleaseRoom(n) ==
    /\ rooms' = release_room(rooms, n)
    /\ rooms_json' = rooms'
    /\ last' = Call("release_room", n, "ok")
    /\ UNCHANGED <<customers, reservations, customers_json, reservations_json, booked>>

NextFlag ==
    \/ \E n \in RoomNumbers, t \in RoomTypes, p \in Prices, a \in BOOLEAN :
           FlagCreateRoom(n, t, p, a)
    \/ \E c \in Guests, n \in RoomNumbers, d \in Ranges :
           FlagAddReservation(c, n, d[1], d[2])
    \/ \E n \in RoomNumbers : FlagReleaseRoom(n)

SpecFlag == Init /\ [][NextFlag]_vars

\* ------------- src/functional/hotel.py: the catalog functions on any catalog
Rates == {0, 100}

\* the tuples of at most k elements of S
Tuples(S, k) == UNION {[1..m -> S] : m \in 0..k}

\* every catalog create_room can build rooms for, duplicates included
Catalogs ==
    Tuples({create_room(n, t, p, a) :
                n \in RoomNumbers, t \in RoomTypes, p \in Rates, a \in BOOLEAN},
           MaxCatalog)

InitCatalog ==
    /\ rooms \in Catalogs
    /\ customers = <<>>
    /\ reservations = <<>>
    /\ rooms_json = <<>>
    /\ customers_json = <<>>
    /\ reservations_json = <<>>
    /\ last = Call("start", 0, "none")
    /\ booked = {}

UpdateRoomAvailability(n, flag) ==
    /\ rooms' = update_room_availability(rooms, n, flag)
    /\ last' = Call("update_room_availability", n, flag)
    /\ UNCHANGED <<customers, reservations, rooms_json, customers_json,
                   reservations_json, booked>>

\* choice '7'
RoomOccupancyRate ==
    /\ last' = Call("room_occupancy_rate", 0, room_occupancy_rate(rooms, 0, 0))
    /\ UNCHANGED <<rooms, customers, reservations, rooms_json, customers_json,
                   reservations_json, booked>>

\* choice '13'
GenerateOccupancyReport ==
    /\ last' = Call("generate_occupancy_report", 0, generate_occupancy_report(rooms))
    /\ UNCHANGED <<rooms, customers, reservations, rooms_json, customers_json,
                   reservations_json, booked>>

\* choice '2'
CheckRoomStatus(n) ==
    /\ last' = Call("check_room_status", n, check_room_status(rooms, n))
    /\ UNCHANGED <<rooms, customers, reservations, rooms_json, customers_json,
                   reservations_json, booked>>

NextCatalog ==
    \/ \E n \in RoomNumbers, flag \in BOOLEAN : UpdateRoomAvailability(n, flag)
    \/ \E n \in RoomNumbers : CheckRoomStatus(n)
    \/ RoomOccupancyRate
    \/ GenerateOccupancyReport

SpecCatalog == InitCatalog /\ [][NextCatalog]_vars

\* -------------- src/functional/hotel.py: the ledger functions on any ledger
\* every ledger of reservations of one room, by either guest, for any pair of
\* dates; none of the functions applied below reads roomNumber
Ledgers ==
    Tuples({create_reservation(c, MaxRoom, d) : c \in Names, d \in RawRanges},
           MaxRes)

InitLedger ==
    /\ rooms = <<>>
    /\ customers = <<>>
    /\ reservations \in Ledgers
    /\ rooms_json = <<>>
    /\ customers_json = <<>>
    /\ reservations_json = <<>>
    /\ last = Call("start", 0, "none")
    /\ booked = {}

CheckReservations(s, e) ==
    /\ last' = Call("check_reservations", 0, check_reservations(reservations, s, e))
    /\ UNCHANGED <<rooms, customers, reservations, rooms_json, customers_json,
                   reservations_json, booked>>

FilterReservationsByPeriod(s, e) ==
    /\ last' = Call("filter_reservations_by_period", 0,
                    filter_reservations_by_period(reservations, s, e))
    /\ UNCHANGED <<rooms, customers, reservations, rooms_json, customers_json,
                   reservations_json, booked>>

ReservationSummary ==
    /\ last' = Call("reservation_summary", 0, reservation_summary(reservations, {}, 0))
    /\ UNCHANGED <<rooms, customers, reservations, rooms_json, customers_json,
                   reservations_json, booked>>

NextLedger ==
    \/ \E d \in RawRanges : CheckReservations(d[1], d[2])
    \/ \E d \in RawRanges : FilterReservationsByPeriod(d[1], d[2])
    \/ ReservationSummary

SpecLedger == InitLedger /\ [][NextLedger]_vars

\* ---- Concepts_Builtin, Concepts_JsonFile: the period filter on any ledger
FlagFilterReservationsByPeriod(s, e) ==
    /\ last' = Call("filter_reservations_by_period", 0,
                    flag_filter_reservations_by_period(reservations, s, e))
    /\ UNCHANGED <<rooms, customers, reservations, rooms_json, customers_json,
                   reservations_json, booked>>

\* generate_daily_report: the reservations it reports on
FlagDailyReport(date) ==
    /\ last' = Call("generate_daily_report", 0,
                    flag_filter_reservations_by_period(reservations, date, date))
    /\ UNCHANGED <<rooms, customers, reservations, rooms_json, customers_json,
                   reservations_json, booked>>

NextFlagLedger ==
    \/ \E d \in RawRanges : FlagFilterReservationsByPeriod(d[1], d[2])
    \/ \E date \in Dates : FlagDailyReport(date)

SpecFlagLedger == InitLedger /\ [][NextFlagLedger]_vars

\* ------------------- src/functional/hotel.py: generate_bill on any inputs
\* the catalogs and ledgers generate_bill tells apart: it reads the number
\* and price of a room and the roomNumber of a reservation
BillCatalogs ==
    Tuples({create_room(n, t, p, TRUE) :
                n \in RoomNumbers, t \in RoomTypes, p \in Rates},
           MaxCatalog)

BillLedgers ==
    Tuples({create_reservation(c, n, <<MaxDay, MaxDay>>) :
                c \in Guests, n \in RoomNumbers},
           MaxRes)

\* choice '6': days stayed, additional services, tax and discount percentages
Stays == {1, 3}
Services == {0, 20}
TaxRates == {0, 10}
Discounts == {0, 10}

InitBill ==
    /\ rooms \in BillCatalogs
    /\ customers = <<>>
    /\ reservations \in BillLedgers
    /\ rooms_json = <<>>
    /\ customers_json = <<>>
    /\ reservations_json = <<>>
    /\ last = Call("start", 0, "none")
    /\ booked = {}

GenerateBill(n, days, additional_services, tax_rate, discount) ==
    /\ last' = Call("generate_bill", n,
                    generate_bill(reservations, rooms, n, days,
                                  additional_services, tax_rate, discount))
    /\ UNCHANGED <<rooms, customers, reservations, rooms_json, customers_json,
                   reservations_json, booked>>

NextBill ==
    \E n \in RoomNumbers, days \in Stays, x \in Services,
       t \in TaxRates, k \in Discounts : GenerateBill(n, days, x, t, k)

SpecBill == InitBill /\ [][NextBill]_vars

\* ------ the Generate Bill choice of the three menus on any catalog, ledger
\* generate_bill of Concepts_Builtin and Concepts_JsonFile: the first
\* reservation of the room, then the room; tax_rate and discount are left to
\* calculate_bill's defaults, 0.1 and 0.0
flag_generate_bill(res, rs, room_number, days, additional_services) ==
    LET reservation == IF \E i \in 1..Len(res) : res[i].roomNumber = room_number
                       THEN res[CHOOSE i \in 1..Len(res) :
                                   /\ res[i].roomNumber = room_number
                                   /\ \A j \in 1..(i - 1) : res[j].roomNumber # room_number]
                       ELSE None
        room == check_room_status(rs, room_number)
    IN  IF reservation # None /\ room # None
        THEN Amount(calculate_bill(room.price, days, additional_services, 10, 0))
        ELSE None

\* Python's truth value of a float-or-None: None and 0.0 are false
truthy(bill) == bill # None /\ bill.amount # 0

\* what the choice prints
Printed(shown, bill) ==
    IF shown THEN [text |-> "Total bill", bill |-> bill]
    ELSE [text |-> "Reservation not found."]

\* days typed at the choice: int(input()), unchecked
BillDays == {0, 1}

\* Concepts_JsonFile choice '5': if bill
JsonFileBill(n, days, additional_services) ==
    LET bill == flag_generate_bill(reservations, rooms, n, days, additional_services)
    IN  /\ last' = Call("JsonFile.generate_bill", n, Printed(truthy(bill), bill))
        /\ UNCHANGED <<rooms, customers, reservations, rooms_json, customers_json,
                       reservations_json, booked>>

\* Concepts_Builtin choice 5: if bill is not None
BuiltinBill(n, days, additional_services) ==
    LET bill == flag_generate_bill(reservations, rooms, n, days, additional_services)
    IN  /\ last' = Call("Builtin.generate_bill", n, Printed(bill # None, bill))
        /\ UNCHANGED <<rooms, customers, reservations, rooms_json, customers_json,
                       reservations_json, booked>>

\* hotel.py choice '6': if total_bill is not None
HotelBill(n, days, additional_services, tax_rate, discount) ==
    LET total_bill == generate_bill(reservations, rooms, n, days,
                                    additional_services, tax_rate, discount)
    IN  /\ last' = Call("hotel.generate_bill", n, Printed(total_bill # None, total_bill))
        /\ UNCHANGED <<rooms, customers, reservations, rooms_json, customers_json,
                       reservations_json, booked>>

NextBillMenu ==
    \/ \E n \in RoomNumbers, days \in BillDays, x \in Services : JsonFileBill(n, days, x)
    \/ \E n \in RoomNumbers, days \in BillDays, x \in Services : BuiltinBill(n, days, x)
    \/ \E n \in RoomNumbers, days \in BillDays, x \in Services,
          t \in TaxRates, k \in Discounts : HotelBill(n, days, x, t, k)

SpecBillMenu == InitBill /\ [][NextBillMenu]_vars

\* ----------- src/functional/hotel.py: generate_revenue_report on any inputs
\* two rooms over three days, 2024-01-01 to 2024-01-03, at two rates
RevenueRooms == {create_room(n, t, p, TRUE) : n \in {1, 2}, t \in RoomTypes, p \in {100, 150}}

\* the catalogs choice '1' can build: no room number twice
RevenueCatalogs ==
    {c \in Tuples(RevenueRooms, MaxCatalog) :
        \A i \in 1..Len(c) : \A j \in 1..Len(c) :
            c[i].roomNumber = c[j].roomNumber => i = j}

Periods == {d \in (1..3) \X (1..3) : d[1] <= d[2]}

RevenueLedgers ==
    Tuples({create_reservation(c, n, d) : c \in Guests, n \in {1, 2}, d \in Periods},
           MaxRes)

\* every reservation of the ledger is of a room of the catalog
InitRevenue ==
    /\ rooms \in RevenueCatalogs
    /\ customers = <<>>
    /\ reservations \in {l \in RevenueLedgers :
                            \A i \in 1..Len(l) : check_if_room_exists(rooms, l[i].roomNumber)}
    /\ rooms_json = <<>>
    /\ customers_json = <<>>
    /\ reservations_json = <<>>
    /\ last = Call("start", 0, "none")
    /\ booked = {}

\* choice '14'
GenerateRevenueReport(s, e) ==
    /\ last' = Call("generate_revenue_report", 0,
                    generate_revenue_report(rooms, reservations, s, e, 0))
    /\ UNCHANGED <<rooms, customers, reservations, rooms_json, customers_json,
                   reservations_json, booked>>

NextRevenue == \E d \in Periods : GenerateRevenueReport(d[1], d[2])

SpecRevenue == InitRevenue /\ [][NextRevenue]_vars

\* -------- Concepts_Builtin, Concepts_JsonFile: the period reports on any
\* ledger. Dates are day numbers of 2024: 1 is 2024-01-01, 32 is 2024-02-01.
\* timedelta(weeks=1)
Week == 7

\* date.startswith(month) for a month "2024-MM"
startswith(date, month) == (IF date <= 31 THEN 1 ELSE 2) = month

\* room_occupancy_rate of the flag-gated variants
flag_room_occupancy_rate(rs) ==
    IF rs # <<>> THEN Quotient(occupied_rooms(rs), Len(rs)) ELSE Quotient(0, 1)

\* total_revenue: reduce() from 0.0, adding the price of the reservation's
\* room when the catalog has it
RECURSIVE total_revenue(_, _, _)
total_revenue(res, rs, acc) ==
    IF res = <<>> THEN acc
    ELSE total_revenue(Tail2(res), rs,
             IF check_room_status(rs, res[1].roomNumber) # None
             THEN acc + check_room_status(rs, res[1].roomNumber).price
             ELSE acc)

\* what a period report prints of the reservations it selected
report_lines(filtered_reservations, rs) ==
    [revenue |-> total_revenue(filtered_reservations, rs, 0),
     occupancy_rate |-> flag_room_occupancy_rate(rs),
     total |-> Len(filtered_reservations)]

generate_daily_report(res, rs, date) ==
    report_lines(flag_filter_reservations_by_period(res, date, date), rs)

generate_weekly_report(res, rs, start_date) ==
    LET end_date == start_date + Week
    IN  report_lines(flag_filter_reservations_by_period(res, start_date, end_date), rs)

generate_monthly_report(res, rs, month) ==
    report_lines(SelectSeq(res, LAMBDA reservation : startswith(reservation.dates[1], month)), rs)

\* the days of the reports' calendar: 2024-01-01, -03, -08, and 2024-02-01
ReportDays == {1, 3, 8, 32}
ReportStarts == {1, 3}
Months == {1, 2}

ReportLedgers ==
    Tuples({create_reservation(c, n, d) :
               c \in Guests, n \in {1, 2},
               d \in {r \in ReportDays \X ReportDays : r[1] <= r[2]}},
           MaxRes)

\* every reservation of the ledger is of a room of the catalog
InitReport ==
    /\ rooms \in RevenueCatalogs
    /\ customers = <<>>
    /\ reservations \in {l \in ReportLedgers :
                            \A i \in 1..Len(l) : check_if_room_exists(rooms, l[i].roomNumber)}
    /\ rooms_json = <<>>
    /\ customers_json = <<>>
    /\ reservations_json = <<>>
    /\ last = Call("start", 0, "none")
    /\ booked = {}

\* choice 13
DailyReport(date) ==
    /\ last' = Call("generate_daily_report", date,
                    generate_daily_report(reservations, rooms, date))
    /\ UNCHANGED <<rooms, customers, reservations, rooms_json, customers_json,
                   reservations_json, booked>>

\* choice 14
WeeklyReport(start_date) ==
    /\ last' = Call("generate_weekly_report", start_date,
                    generate_weekly_report(reservations, rooms, start_date))
    /\ UNCHANGED <<rooms, customers, reservations, rooms_json, customers_json,
                   reservations_json, booked>>

\* choice 15
MonthlyReport(month) ==
    /\ last' = Call("generate_monthly_report", month,
                    generate_monthly_report(reservations, rooms, month))
    /\ UNCHANGED <<rooms, customers, reservations, rooms_json, customers_json,
                   reservations_json, booked>>

NextReport ==
    \/ \E date \in ReportStarts : DailyReport(date)
    \/ \E start_date \in ReportStarts : WeeklyReport(start_date)
    \/ \E month \in Months : MonthlyReport(month)

SpecReport == InitReport /\ [][NextReport]_vars

\* ------------- src/functional/hotel.py main(): the menu with its read-only
\* choices. Each of them prints what it computes and is followed by no
\* assignment and no save; of what is printed, last keeps whether a bill was
\* found.
\* choice '6'
ShowBill(n, days, additional_services, tax_rate, discount) ==
    LET total_bill == generate_bill(reservations, rooms, n, days,
                                    additional_services, tax_rate, discount)
    IN  /\ last' = Call("generate_bill", 0,
                        IF total_bill # None THEN "shown" ELSE "not found")
        /\ UNCHANGED <<rooms, customers, reservations, rooms_json, customers_json,
                       reservations_json, booked>>

\* choices '7', '8', '13', '14', '15': the occupancy rate, the reservation
\* summary, the occupancy and revenue reports, the financial summary
ShowReport ==
    /\ last' = Call("report", 0, "shown")
    /\ UNCHANGED <<rooms, customers, reservations, rooms_json, customers_json,
                   reservations_json, booked>>

NextMenu ==
    \/ NextDesk
    \/ \E n \in RoomNumbers : ShowBill(n, 1, 0, 10, 0)
    \/ ShowReport

SpecMenu == Init /\ [][NextMenu]_vars

\* ------------- src/imperative concepts/reservation.py: class Reservation
\* The class works on a database (self.db: tables customers and
\* reservations, here the variables customers and reservations) and a room
\* manager (self.room_manager, here the variable rooms). Neither class is in
\* the source tree; the three room-manager calls are modelled from the
\* contract of the booking service.
\* room_manager.check_availability: the room exists and no reservation row of
\* the room overlaps the stay
room_manager_check_availability(rs, rows, room_number, check_in_date, check_out_date) ==
    /\ check_if_room_exists(rs, room_number)
    /\ \A i \in 1..Len(rows) :
         rows[i].roomNumber = room_number
             => (rows[i].checkOutDate < check_in_date \/ rows[i].checkInDate > check_out_date)

\* room_manager.book_room: available -> occupied
room_manager_book_room(rs, room_number) ==
    update_room_availability(rs, room_number, FALSE)

\* room_manager.release_room: occupied -> available
room_manager_release_room(rs, room_number) ==
    update_room_availability(rs, room_number, TRUE)

\* SELECT customerID FROM customers WHERE name = ?: the key of the first row
\* of that name, rows being keyed by their position
customerID(cs, name) ==
    CHOOSE i \in 1..Len(cs) :
        cs[i].name = name /\ \A j \in 1..(i - 1) : cs[j].name # name

\* variant: the reservation is made without the customer lookup
make_reservation_unchecked(cs, rows, rs, customer_name, room_number, check_in_date, check_out_date) ==
    IF room_manager_check_availability(rs, rows, room_number, check_in_date, check_out_date)
    THEN [reservations |-> rows \o <<[customerID |-> IF search_customer(cs, customer_name) # None
                                                      THEN customerID(cs, customer_name)
                                                      ELSE 0,
                                      roomNumber |-> room_number,
                                      checkInDate |-> check_in_date,
                                      checkOutDate |-> check_out_date]>>,
          rooms |-> room_manager_book_room(rs, room_number),
          printed |-> "confirmed"]
    ELSE [reservations |-> rows, rooms |-> rs, printed |-> "not available"]

\* make_reservation: the tables and the room manager after the call, and
\* the message printed
make_reservation(cs, rows, rs, customer_name, room_number, check_in_date, check_out_date) ==
    LET customer_exists == search_customer(cs, customer_name)
    IN  IF customer_exists = None
        THEN [reservations |-> rows, rooms |-> rs, printed |-> "not found"]
        ELSE IF room_manager_check_availability(rs, rows, room_number,
                                                check_in_date, check_out_date)
        THEN [reservations |-> rows \o <<[customerID |-> customerID(cs, customer_name),
                                          roomNumber |-> room_number,
                                          checkInDate |-> check_in_date,
                                          checkOutDate |-> check_out_date]>>,
              rooms |-> room_manager_book_room(rs, room_number),
              printed |-> "confirmed"]
        ELSE [reservations |-> rows, rooms |-> rs, printed |-> "not available"]

\* check_in: DELETE FROM reservations WHERE roomNumber = ? AND
\* date(checkInDate) <= date('now'), then book_room
check_in(rows, rs, room_number, now) ==
    [reservations |-> SelectSeq(rows, LAMBDA row :
                          ~(row.roomNumber = room_number /\ row.checkInDate <= now)),
     rooms |-> room_manager_book_room(rs, room_number)]

\* check_out: release_room
check_out(rows, rs, room_number) ==
    [reservations |-> rows, rooms |-> room_manager_release_room(rs, room_number)]

\* the hotel the class is constructed on: every room number but the last has
\* a room, all available, and the customers table holds nobody, Alice, or Bob
\* and Alice
InitImperative ==
    /\ rooms = [i \in 1..(MaxRoom - 1) |-> create_room(i, "single", 100, TRUE)]
    /\ customers \in {<<>>,
                      add_customer(<<>>, "Alice", "contact", "card"),
                      add_customer(add_customer(<<>>, "Bob", "contact", "card"),
                                   "Alice", "contact", "card")}
    /\ reservations = <<>>
    /\ rooms_json = <<>>
    /\ customers_json = <<>>
    /\ reservations_json = <<>>
    /\ last = Call("start", 0, "none")
    /\ booked = {}

MakeReservation(c, n, s, e) ==
    LET after == make_reservation(customers, reservations, rooms, c, n, s, e)
    IN  /\ after.printed = "confirmed" => Len(reservations) < MaxRes
        /\ reservations' = after.reservations
        /\ rooms' = after.rooms
        /\ last' = Call("make_reservation", n, after.printed)
        /\ UNCHANGED <<customers, rooms_json, customers_json, reservations_json, booked>>

\* date('now') is whatever day the call is made on
CheckIn(n, now) ==
    LET after == check_in(reservations, rooms, n, now)
    IN  /\ reservations' = after.reservations
        /\ rooms' = after.rooms
        /\ last' = Call("check_in", n, now)
        /\ UNCHANGED <<customers, rooms_json, customers_json, reservations_json, booked>>

CheckOut(n) ==
    LET after == check_out(reservations, rooms, n)
    IN  /\ reservations' = after.reservations
        /\ rooms' = after.rooms
        /\ last' = Call("check_out", n, "ok")
        /\ UNCHANGED <<customers, rooms_json, customers_json, reservations_json, booked>>

NextImperative ==
    \/ \E c \in Names, n \in RoomNumbers, d \in Ranges : MakeReservation(c, n, d[1], d[2])
    \/ \E n \in RoomNumbers, now \in Dates : CheckIn(n, now)
    \/ \E n \in RoomNumbers : CheckOut(n)

SpecImperative == InitImperative /\ [][NextImperative]_vars

\* ------- src/functional/hotel.py: the state-changing functions on objects
\* A Python tuple is immutable, a dict is not: a tuple of rooms is a sequence
\* of references to dict objects. heap is the sequence of the dict objects
\* allocated so far, a reference is a position in it, and each function
\* returns the heap after the call together with what it returns.
Deref(heap, refs) == [i \in 1..Len(refs) |-> heap[refs[i]]]

\* variant: the matching room's dict is assigned to in place
RECURSIVE obj_update_room_availability_in_place(_, _, _, _)
obj_update_room_availability_in_place(heap, rs, room_number, availability) ==
    IF rs = <<>> THEN [heap |-> heap, result |-> <<>>]
    ELSE LET room == rs[1]
         IN  IF heap[room].roomNumber = room_number
             THEN LET rest == obj_update_room_availability_in_place(
                                  [heap EXCEPT ![room].available = availability],
                                  Tail2(rs), room_number, availability)
                  IN  [heap |-> rest.heap, result |-> <<room>> \o rest.result]
             ELSE LET rest == obj_update_room_availability_in_place(
                                  heap, Tail2(rs), room_number, availability)
                  IN  [heap |-> rest.heap, result |-> <<room>> \o rest.result]

\* updated_room = {**room, 'available': availability} is a new dict; a room
\* that does not match is passed on by reference
RECURSIVE obj_update_room_availability(_, _, _, _)
obj_update_room_availability(heap, rs, room_number, availability) ==
    IF rs = <<>> THEN [heap |-> heap, result |-> <<>>]
    ELSE LET room == rs[1]
         IN  IF heap[room].roomNumber = room_number
             THEN LET updated_room == Len(heap) + 1
                      rest == obj_update_room_availability(
                                  Append(heap, [heap[room] EXCEPT !.available = availability]),
                                  Tail2(rs), room_number, availability)
                  IN  [heap |-> rest.heap, result |-> <<updated_room>> \o rest.result]
             ELSE LET rest == obj_update_room_availability(
                                  heap, Tail2(rs), room_number, availability)
                  IN  [heap |-> rest.heap, result |-> <<room>> \o rest.result]

obj_release_room(heap, rs, room_number) ==
    obj_update_room_availability(heap, rs, room_number, TRUE)

\* the checks read the objects; then updated_rooms is built and the
\* reservation is appended by reference: reservations + (reservation,)
obj_add_reservation(heap, res, rs, reservation) ==
    IF add_reservation(Deref(heap, res), Deref(heap, rs), heap[reservation]) = None
    THEN None
    ELSE LET updated_rooms == obj_update_room_availability(
                                  heap, rs, heap[reservation].roomNumber, FALSE)
         IN  [heap |-> updated_rooms.heap,
              reservations |-> res \o <<reservation>>,
              rooms |-> updated_rooms.result]

\* customer is a new dict: customers + (customer,)
obj_add_customer(heap, cs, name, contact_info, payment_method) ==
    [heap |-> Append(heap, [name |-> name, contactInfo |-> contact_info,
                            paymentMethod |-> payment_method]),
     result |-> cs \o <<Len(heap) + 1>>]

\* ================================================================ claims
\* DateRange overlap as the data model states it (inclusive bounds)
RangesOverlap(a, b) == ~(a[2] < b[1] \/ a[1] > b[2])

\* some reservation of the ledger for room n overlaps the range d
RoomHasOverlap(res, n, d) ==
    \E i \in 1..Len(res) : res[i].roomNumber = n /\ RangesOverlap(res[i].dates, d)

\* the catalog after is the catalog before with room n flagged unavailable
BookedCatalog(before, after, n) ==
    /\ Len(after) = Len(before)
    /\ \A i \in 1..Len(before) :
         IF before[i].roomNumber = n
         THEN /\ after[i].available = FALSE
              /\ after[i].roomNumber = before[i].roomNumber
              /\ after[i].roomType = before[i].roomType
              /\ after[i].price = before[i].price
         ELSE after[i] = before[i]

\* C1: in the functional variant no two reservations of the ledger for the
\* same room have overlapping date ranges
C1_NoDoubleBooking ==
    \A i \in 1..Len(reservations) : \A j \in 1..Len(reservations) :
        (i < j /\ reservations[i].roomNumber = reservations[j].roomNumber)
            => ~RangesOverlap(reservations[i].dates, reservations[j].dates)

\* a room holds two reservations, was released, and a further booking of it
\* has just been refused
C1_Witness ==
    /\ Len(reservations) = 2
    /\ reservations[1].roomNumber = reservations[2].roomNumber
    /\ check_room_status(rooms, reservations[1].roomNumber).available
    /\ last.op = "add_reservation" /\ last.result = "refused"

\* C2: in the flag-gated variants no two reservations of the ledger for the
\* same room have overlapping date ranges
C2_FlagNoDoubleBooking ==
    \A j \in 1..Len(reservations) : \A i \in 1..(j - 1) :
        reservations[i].roomNumber = reservations[j].roomNumber
            => ~RangesOverlap(reservations[i].dates, reservations[j].dates)

\* C3: is_room_available_for_period is false for a room that does not exist,
\* and otherwise true exactly when no reservation of that room overlaps the
\* requested range
C3_AvailableIffRoomFree ==
    \A n \in RoomNumbers, s \in Dates, e \in Dates :
        is_room_available_for_period(rooms, n, s, e, reservations)
            = (check_if_room_exists(rooms, n)
               /\ ~RoomHasOverlap(reservations, n, <<s, e>>))

C5_FlagTwoBookings ==
    (last.op = "add_reservation" /\ last.result = "ok") =>
        \A x \in Requests(Names, RawRanges) :
            x.roomNumber = reservations[Len(reservations)].roomNumber
                => (flag_add_reservation(reservations, rooms, x) # None
                      <=> ~RangesOverlap(reservations[Len(reservations)].dates,
                                         x.dates))

\* C6: once a booking of room n for the range R (start <= end) has succeeded,
\* is_room_available_for_period is false for n with R and with every range
\* overlapping R, in every later state
C6_BookedStaysUnavailable ==
    \A b \in booked : b.dates[1] <= b.dates[2] =>
        \A s \in Dates, e \in Dates :
            (<<s, e>> = b.dates \/ RangesOverlap(b.dates, <<s, e>>))
                => ~is_room_available_for_period(rooms, b.roomNumber, s, e,
                                                 reservations)

\* a booked room has been released and another booking was made afterwards
C6_Witness ==
    /\ \E b \in booked : b.dates[1] <= b.dates[2]
                         /\ check_room_status(rooms, b.roomNumber).available
    /\ Len(reservations) = 2
    /\ last.op = "add_reservation" /\ last.result = "ok"

\* C7: functional variant: after room n was booked for R and then released,
\* add_reservation for n and R succeeds again
C7_RebookAfterRelease ==
    last.op = "release_room" =>
        \A x \in Requests(Names, RawRanges) :
            (x.roomNumber = last.roomNumber
             /\ [roomNumber |-> x.roomNumber, dates |-> x.dates] \in booked)
                => add_reservation(reservations, rooms, x) # None

\* C8: add_reservation refuses a room that does not exist and a room and
\* range that fail the availability check, and a refused booking leaves the
\* rooms and reservations in memory and on file as they were
C8_RefusalChangesNothing ==
    /\ [](\A x \in Requests(Names, RawRanges) :
            (\/ ~check_if_room_exists(rooms, x.roomNumber)
             \/ ~is_room_available_for_period(rooms, x.roomNumber,
                    x.dates[1], x.dates[2], reservations))
                => add_reservation(reservations, rooms, x) = None)
    /\ [][(last'.op = "add_reservation" /\ last'.result = "refused")
            => UNCHANGED <<rooms, reservations, rooms_json, reservations_json>>]_vars

\* a booking of an existing room was refused with a non-empty ledger on file
C8_Witness ==
    /\ last.op = "add_reservation" /\ last.result = "refused"
    /\ rooms # <<>>
    /\ reservations # <<>>
    /\ reservations_json = reservations /\ rooms_json = rooms

\* C9: when add_reservation succeeds, the returned ledger is the input ledger
\* with the reservation appended, and the returned catalog is the input
\* catalog with available false on the booked room: same length and order,
\* other rooms and the booked room's other fields unchanged
C9_BookingFrame ==
    \A x \in Requests(Names, RawRanges) :
        LET result == add_reservation(reservations, rooms, x)
        IN  result # None =>
                /\ result.reservations = Append(reservations, x)
                /\ BookedCatalog(rooms, result.rooms, x.roomNumber)
                /\ check_room_status(result.rooms, x.roomNumber).available = FALSE

\* a booking succeeded in a catalog of two rooms, the other room still available
C9_Witness ==
    /\ last.op = "add_reservation" /\ last.result = "ok"
    /\ Len(rooms) = 2
    /\ rooms[1].available # rooms[2].available
    /\ Len(reservations) = 2
    /\ BookedCatalog(rooms, rooms, reservations[2].roomNumber)

\* C10: menu of main.py: a booking for a name not in the customer directory
\* is refused (no new state); a booking for a registered customer, on an
\* existing room with no overlapping reservation of its own, succeeds and is
\* appended to the ledger
C10_CustomerPolicy ==
    \A x \in Requests(Names, RawRanges) :
        LET result == add_reservation_if_customer_exists(reservations, rooms,
                                                         customers, x)
        IN  /\ search_customer(customers, x.customerName) = None
               => result = None
            /\ (/\ search_customer(customers, x.customerName) # None
                /\ check_if_room_exists(rooms, x.roomNumber)
                /\ ~RoomHasOverlap(reservations, x.roomNumber, x.dates))
               => (result # None /\ result.reservations = Append(reservations, x))

\* C11: the value add_reservation returns for a room that does not exist
\* differs from the value it returns for an existing room that is not
\* available for the requested range
C11_RefusalReasonDistinct ==
    \A x \in Requests(Guests, Ranges) : \A y \in Requests(Guests, Ranges) :
        (/\ ~check_if_room_exists(rooms, x.roomNumber)
         /\ check_if_room_exists(rooms, y.roomNumber)
         /\ ~is_room_available_for_period(rooms, y.roomNumber, y.dates[1],
                                          y.dates[2], reservations))
            => add_reservation(reservations, rooms, x)
                   # add_reservation(reservations, rooms, y)

\* C12: update_room_availability(rooms, n, flag) returns a catalog of the same
\* length and order in which every room numbered n has available = flag and
\* its other fields unchanged and every other room is the input room; when no
\* room is numbered n the result is the input
C12_UpdateFrame ==
    \A n \in RoomNumbers, flag \in BOOLEAN :
        LET result == update_room_availability(rooms, n, flag)
        IN  /\ Len(result) = Len(rooms)
            /\ \A i \in 1..Len(rooms) :
                 IF rooms[i].roomNumber = n
                 THEN /\ result[i].available = flag
                      /\ result[i].roomNumber = rooms[i].roomNumber
                      /\ result[i].roomType = rooms[i].roomType
                      /\ result[i].price = rooms[i].price
                      /\ DOMAIN result[i] = DOMAIN rooms[i]
                 ELSE result[i] = rooms[i]
            /\ (\A i \in 1..Len(rooms) : rooms[i].roomNumber # n) => result = rooms

\* the flag of one room of a catalog of two has just been set to false, the
\* other room is still available
C12_Witness ==
    /\ last.op = "update_room_availability"
    /\ last.result = FALSE
    /\ Len(rooms) = 2
    /\ rooms[1].roomNumber # last.roomNumber /\ rooms[1].available
    /\ rooms[2].roomNumber = last.roomNumber /\ ~rooms[2].available

\* C13: release_room(rooms, n) sets available = true on room n and leaves
\* every other room as it was; for a number not in the catalog it returns the
\* catalog unchanged; releasing the released catalog again changes nothing;
\* and the menu's release leaves the reservation ledger and the customer
\* directory, in memory and on file, as they were
C13_ReleaseFrame ==
    /\ [](\A n \in RoomNumbers :
            LET result == release_room(rooms, n)
            IN  /\ Len(result) = Len(rooms)
                /\ \A i \in 1..Len(rooms) :
                     IF rooms[i].roomNumber = n
                     THEN /\ result[i].available
                          /\ result[i].roomNumber = rooms[i].roomNumber
                          /\ result[i].roomType = rooms[i].roomType
                          /\ result[i].price = rooms[i].price
                     ELSE result[i] = rooms[i]
                /\ ~check_if_room_exists(rooms, n) => result = rooms
                /\ release_room(result, n) = result)
    /\ [][last'.op = "release_room"
            => /\ rooms' = release_room(rooms, last'.roomNumber)
               /\ UNCHANGED <<reservations, customers, reservations_json,
                              customers_json>>]_vars

\* a booked room has just been released while the other room of the catalog
\* stays booked, with a customer in the directory
C13_Witness ==
    /\ last.op = "release_room"
    /\ Len(rooms) = 2
    /\ Len(reservations) = 2
    /\ reservations[1].roomNumber # reservations[2].roomNumber
    /\ check_room_status(rooms, last.roomNumber) # None
    /\ check_room_status(rooms, last.roomNumber).available
    /\ \E i \in 1..2 : ~rooms[i].available
    /\ customers # <<>>

\* C14: the overlap test of the period filter, which is also the test of the
\* availability check, gives the same answer with its two ranges exchanged,
\* is true of a range (start <= end) and itself, and is false when the first
\* range ends before the second starts
C14_OverlapAlgebra ==
    \A i \in 1..Len(reservations) : \A j \in 1..Len(reservations) :
        LET a == reservations[i]
            b == reservations[j]
        IN  /\ overlaps(a, b.dates[1], b.dates[2]) = overlaps(b, a.dates[1], a.dates[2])
            /\ a.dates[1] <= a.dates[2] => overlaps(a, a.dates[1], a.dates[2])
            /\ a.dates[2] < b.dates[1] => ~overlaps(a, b.dates[1], b.dates[2])
            /\ check_reservations(<<a>>, b.dates[1], b.dates[2])
                   = ~overlaps(a, b.dates[1], b.dates[2])

\* a ledger of two different ranges sharing a day, tested by the availability
\* check for a period that meets one of them
C14_Witness ==
    /\ last.op = "check_reservations"
    /\ last.result = FALSE
    /\ Len(reservations) = 2
    /\ reservations[1].dates # reservations[2].dates
    /\ reservations[1].dates[1] <= reservations[1].dates[2]
    /\ reservations[2].dates[1] <= reservations[2].dates[2]
    /\ overlaps(reservations[1], reservations[2].dates[1], reservations[2].dates[2])

\* C15: filter_reservations_by_period(reservations, s, e) is the ledger
\* restricted to the reservations whose range overlaps [s, e], bounds
\* included: each of them once, in the ledger's order, and nothing else
C15_FilterExact ==
    \A p \in RawRanges :
        filter_reservations_by_period(reservations, p[1], p[2])
            = SelectSeq(reservations, LAMBDA r : RangesOverlap(r.dates, p))

\* the filter has just kept two different reservations of the ledger
C15_Witness ==
    /\ last.op = "filter_reservations_by_period"
    /\ Len(last.result) = 2
    /\ last.result[1] # last.result[2]
    /\ last.result = reservations

\* C20: reservation_summary(reservations) reports the number of reservations
\* as totalReservations and the number of distinct customerName values as
\* uniqueGuests, so uniqueGuests <= totalReservations; one more reservation
\* by a customer already in the ledger raises totalReservations by one and
\* leaves uniqueGuests as it was
C20_SummaryCounts ==
    LET summary == reservation_summary(reservations, {}, 0)
        guests == {reservations[i].customerName : i \in 1..Len(reservations)}
    IN  /\ summary.totalReservations = Len(reservations)
        /\ summary.uniqueGuests = Cardinality(guests)
        /\ summary.uniqueGuests <= summary.totalReservations
        /\ \A x \in Requests(Names, RawRanges) :
             x.customerName \in guests =>
                LET more == reservation_summary(reservations \o <<x>>, {}, 0)
                IN  /\ more.totalReservations = summary.totalReservations + 1
                    /\ more.uniqueGuests = summary.uniqueGuests

\* the summary of a ledger of two reservations by the same guest
C20_Witness ==
    /\ last.op = "reservation_summary"
    /\ last.result.totalReservations = 2
    /\ last.result.uniqueGuests = 1
    /\ reservations[1].customerName = reservations[2].customerName

\* C18: room_occupancy_rate(rooms) is K / N, N the number of rooms and K the
\* number of them with available = false; it is 0 for the empty catalog and
\* lies between 0 and 1; generate_occupancy_report gives the same K and N
C18_OccupancyRate ==
    LET N == Len(rooms)
        K == Cardinality({i \in 1..Len(rooms) : ~rooms[i].available})
        rate == room_occupancy_rate(rooms, 0, 0)
        report == generate_occupancy_report(rooms)
    IN  /\ rate.den > 0
        /\ N > 0 => rate.num * N = K * rate.den
        /\ N = 0 => rate.num = 0
        /\ 0 <= rate.num /\ rate.num <= rate.den
        /\ report.totalRooms = N
        /\ report.occupiedRooms = K

\* the rate of a catalog of two rooms, one of them occupied, has been computed
C18_Witness ==
    /\ last.op = "room_occupancy_rate"
    /\ Len(rooms) = 2
    /\ rooms[1].available /\ ~rooms[2].available
    /\ last.result = Quotient(1, 2)

\* the first room of the catalog numbered n
FirstRoom(rs, n) ==
    rs[CHOOSE i \in 1..Len(rs) :
           /\ rs[i].roomNumber = n
           /\ \A j \in 1..(i - 1) : rs[j].roomNumber # n]

\* generate_bill has a reservation and a room to bill for room n
Billable(n) ==
    /\ \E i \in 1..Len(reservations) : reservations[i].roomNumber = n
    /\ \E i \in 1..Len(rooms) : rooms[i].roomNumber = n

\* C16 as stated: generate_bill for nightly rate p, days d, extras x, tax
\* fraction t and discount k returns (p * d + x) * (1 + t) - k, the discount
\* taken off as an amount as calculate_bill does
C16_DiscountAsAmount ==
    \A n \in RoomNumbers, d \in Stays, x \in Services,
       t \in TaxRates, k \in Discounts :
        Billable(n) =>
            LET p == FirstRoom(rooms, n).price
            IN  generate_bill(reservations, rooms, n, d, x, t, k)
                    = Amount((((p * d) + x) * (100 + t)) - k)

\* C16: generate_bill for nightly rate p, days d, extras x, tax fraction t
\* and discount k returns (p * d + x) * (1 + t - k): the discount is the
\* fraction k of the pre-tax cost; calculate_bill of the Concepts_Builtin
\* variant returns (p * d + x) * (1 + t) - k, the discount taken off as an
\* amount
C16_DiscountAsShare ==
    \A n \in RoomNumbers, d \in Stays, x \in Services,
       t \in TaxRates, k \in Discounts :
        Billable(n) =>
            LET p == FirstRoom(rooms, n).price
            IN  /\ generate_bill(reservations, rooms, n, d, x, t, k)
                       = Amount(((p * d) + x) * ((100 + t) - k))
                /\ calculate_bill(p, d, x, t, k) = (((p * d) + x) * (100 + t)) - k

\* the bill of a room at rate 100 for 3 days, 20 of extras, 10% tax and a
\* 10% discount has been computed: 320 + 32 - 32
C16_Witness ==
    /\ last.op = "generate_bill"
    /\ Billable(last.roomNumber)
    /\ FirstRoom(rooms, last.roomNumber).price = 100
    /\ last.result = Amount(32000)
    /\ generate_bill(reservations, rooms, last.roomNumber, 3, 20, 10, 10)
           = Amount(32000)

\* C17: generate_bill returns None exactly when the ledger has no reservation
\* of room n or the catalog has no room numbered n; otherwise it returns the
\* amount computed from the price of the first room numbered n, the same as
\* for a ledger holding a single reservation of room n
C17_BillNotFound ==
    \A n \in RoomNumbers, d \in Stays, x \in Services,
       t \in TaxRates, k \in Discounts :
        LET bill == generate_bill(reservations, rooms, n, d, x, t, k)
        IN  /\ bill = None <=> ~Billable(n)
            /\ Billable(n) =>
                 bill = generate_bill(<<create_reservation("Alice", n, <<MaxDay, MaxDay>>)>>,
                                      <<FirstRoom(rooms, n)>>, n, d, x, t, k)

\* a bill has been computed for a room that is twice in the catalog at two
\* prices and twice in the ledger, behind a reservation of another room
C17_Witness ==
    /\ last.op = "generate_bill"
    /\ last.result # None
    /\ Len(rooms) = 2
    /\ rooms[1].roomNumber = last.roomNumber
    /\ rooms[2].roomNumber = last.roomNumber
    /\ rooms[1].price # rooms[2].price
    /\ Len(reservations) = 2
    /\ reservations[1].roomNumber # last.roomNumber
    /\ reservations[2].roomNumber = last.roomNumber

\* what the first k reservations of the ledger owe for the period p: for each
\* one whose range overlaps p, the rate of its room times its inclusive days
RECURSIVE RevenueDue(_, _, _, _)
RevenueDue(rs, res, p, k) ==
    IF k = 0 THEN 0
    ELSE RevenueDue(rs, res, p, k - 1)
         + (IF RangesOverlap(res[k].dates, p)
            THEN FirstRoom(rs, res[k].roomNumber).price
                     * ((res[k].dates[2] - res[k].dates[1]) + 1)
            ELSE 0)

\* C19: generate_revenue_report(rooms, reservations, s, e) is the sum, over
\* the reservations whose range overlaps [s, e], of the reserved room's
\* nightly rate times ((end - start in days) + 1); a reservation that does
\* not overlap the period adds nothing
C19_RevenueSum ==
    \A p \in Periods :
        /\ generate_revenue_report(rooms, reservations, p[1], p[2], 0)
               = RevenueDue(rooms, reservations, p, Len(reservations))
        /\ \A i \in 1..Len(reservations) :
             ~RangesOverlap(reservations[i].dates, p) =>
                generate_revenue_report(rooms, reservations, p[1], p[2], 0)
                    = generate_revenue_report(rooms,
                          SubSeq(reservations, 1, i - 1)
                              \o SubSeq(reservations, i + 1, Len(reservations)),
                          p[1], p[2], 0)

\* the report of a ledger holding a single reservation of 3 inclusive days at
\* rate 100 has been computed: 300
C19_Witness ==
    /\ last.op = "generate_revenue_report"
    /\ last.result = 300
    /\ Len(reservations) = 1
    /\ reservations[1].dates = <<1, 3>>
    /\ check_room_status(rooms, reservations[1].roomNumber).price = 100

\* C21: in the functional variant bookings of different rooms are
\* independent: when room A holds a reservation for a range and room B
\* exists, a booking of room B for an overlapping range succeeds as long as
\* room B has no overlapping reservation of its own
C21_RoomsIndependent ==
    \A x \in Requests(Guests, Ranges) :
        (/\ check_if_room_exists(rooms, x.roomNumber)
         /\ \E i \in 1..Len(reservations) :
                /\ reservations[i].roomNumber # x.roomNumber
                /\ RangesOverlap(reservations[i].dates, x.dates)
         /\ ~RoomHasOverlap(reservations, x.roomNumber, x.dates))
            => add_reservation(reservations, rooms, x) # None

\* some reservation of the ledger for room n has the day d in its range
RoomTakenOn(res, n, d) ==
    \E j \in 1..Len(res) :
        res[j].roomNumber = n /\ res[j].dates[1] <= d /\ d <= res[j].dates[2]

\* C22: when every room is created available, after any bookings and
\* releases a room's available flag is false exactly when the ledger holds a
\* reservation of that room
C22_FlagIffReserved ==
    \A i \in 1..Len(rooms) :
        ~rooms[i].available
            <=> \E j \in 1..Len(reservations) :
                    reservations[j].roomNumber = rooms[i].roomNumber

\* the days "today" can be: the days of the calendar, the day before and the
\* day after
Todays == 0..(MaxDay + 1)

\* C23: whatever day today is, every room is available exactly when no
\* reservation of that room in the ledger has today in its range
C23_FlagIffFreeToday ==
    \E today \in Todays :
        \A i \in 1..Len(rooms) :
            rooms[i].available <=> ~RoomTakenOn(reservations, rooms[i].roomNumber, today)

\* C24: a room's available flag goes from true to false only in a step that
\* is a successful booking of that room, and from false to true only in a
\* release of that room; no other step of the menu (another room's creation,
\* booking or release, a refused booking, a new customer, a bill, a report)
\* changes it
C24_FlagTransitions ==
    [][\A n \in RoomNumbers :
         LET before == check_room_status(rooms, n)
             after == check_room_status(rooms', n)
         IN  (before # None /\ after # None /\ before.available # after.available)
                 => IF before.available
                    THEN /\ last'.op = "add_reservation"
                         /\ last'.result = "ok"
                         /\ Len(reservations') = Len(reservations) + 1
                         /\ reservations'[Len(reservations')].roomNumber = n
                    ELSE /\ last'.op = "release_room"
                         /\ last'.roomNumber = n]_vars

\* a bill has just been shown while one room is booked and the other, booked
\* before, has been released
C24_Witness ==
    /\ last.op = "generate_bill"
    /\ last.result = "shown"
    /\ Len(rooms) = 2
    /\ rooms[1].available # rooms[2].available
    /\ Len(reservations) = 2
    /\ reservations[1].roomNumber # reservations[2].roomNumber
    /\ customers # <<>>

\* C25 as stated: every reservation of the ledger has the roomNumber of a
\* room of the catalog and the customerName of a customer of the directory
C25_LedgerIntegrity ==
    \A i \in 1..Len(reservations) :
        /\ check_if_room_exists(rooms, reservations[i].roomNumber)
        /\ search_customer(customers, reservations[i].customerName) # None

\* C25: every reservation of the ledger has the roomNumber of a room of the
\* catalog; its customerName need not be in the customer directory, which the
\* Add Reservation choice of hotel.py does not consult
C25_RoomIntegrity ==
    \A i \in 1..Len(reservations) :
        check_if_room_exists(rooms, reservations[i].roomNumber)

\* two rooms are booked for a guest while the customer directory is empty,
\* and a further booking has just been refused
C25_Witness ==
    /\ Len(reservations) = 2
    /\ reservations[1].roomNumber # reservations[2].roomNumber
    /\ customers = <<>>
    /\ last.op = "add_reservation" /\ last.result = "refused"

\* C26: in the menu of every variant the catalog never holds two rooms with
\* the same roomNumber
C26_UniqueRoomNumbers ==
    \A i \in 1..Len(rooms) : \A j \in 1..Len(rooms) :
        rooms[i].roomNumber = rooms[j].roomNumber => i = j

\* C27: every reservation the Add Reservation choice puts in the ledger has
\* start <= end
C27_StartBeforeEnd ==
    \A i \in 1..Len(reservations) :
        reservations[i].dates[1] <= reservations[i].dates[2]


\* C28: in the functional variant the bounds of a range are inclusive: a
\* booking of a room that starts on the end date of a reservation of that
\* room, or ends on its start date, is refused
C28_InclusiveBounds ==
    \A x \in Requests(Guests, Ranges) :
        (\E i \in 1..Len(reservations) :
            /\ reservations[i].roomNumber = x.roomNumber
            /\ \/ x.dates[1] = reservations[i].dates[2]
               \/ x.dates[2] = reservations[i].dates[1])
            => add_reservation(reservations, rooms, x) = None

\* a room is booked for the first day only, and a booking of it has just
\* been refused; the booking starting that day and ending the next is refused
C28_Witness ==
    /\ last.op = "add_reservation" /\ last.result = "refused"
    /\ Len(reservations) = 1
    /\ reservations[1].dates = <<1, 1>>
    /\ add_reservation(reservations, rooms,
           create_reservation("Alice", reservations[1].roomNumber, <<1, 2>>)) = None

\* C29: after an Add Reservation that reached its first save, the files never
\* show the new reservation in reservations.json next to a rooms file in
\* which its room is still available
C29_SavedTogether ==
    (last.op = "add_reservation" /\ last.result \in {"ok", "stopped"})
        => LET new == reservations_json[Len(reservations_json)]
               room == check_room_status(rooms_json, new.roomNumber)
           IN  room # None /\ ~room.available

\* C30: in the flag-gated variants filter_reservations_by_period(reservations,
\* s, e), which the daily report for d calls with [d, d], returns every
\* reservation whose range overlaps the period, in the ledger's order
C30_FlagFilterOverlap ==
    (\A i \in 1..Len(reservations) : reservations[i].dates \in Ranges)
        => \A p \in Ranges :
               flag_filter_reservations_by_period(reservations, p[1], p[2])
                   = SelectSeq(reservations, LAMBDA r : RangesOverlap(r.dates, p))

\* the reservations of the ledger whose start date d satisfies from <= d < to
StartsWithin(res, from, to) ==
    SelectSeq(res, LAMBDA r : from <= r.dates[1] /\ r.dates[1] < to)

\* C31: the weekly report for start date d covers the half-open week
\* [d, d + 7 days): its reservation count and its revenue are those of the
\* reservations starting in it, so a reservation starting exactly on d + 7
\* days is not included
C31_WeekHalfOpen ==
    \A d \in ReportStarts :
        LET week == StartsWithin(reservations, d, d + Week)
        IN  /\ generate_weekly_report(reservations, rooms, d).total = Len(week)
            /\ generate_weekly_report(reservations, rooms, d).revenue
                   = total_revenue(week, rooms, 0)

\* rate times inclusive nights of every reservation of the ledger
RECURSIVE RevenueForPeriod(_, _)
RevenueForPeriod(res, rs) ==
    IF res = <<>> THEN 0
    ELSE FirstRoom(rs, res[1].roomNumber).price * ((res[1].dates[2] - res[1].dates[1]) + 1)
         + RevenueForPeriod(Tail2(res), rs)

\* C32: the revenue of the daily, weekly and monthly reports is, over the
\* reservations the report selected, the sum of the room's nightly rate times
\* the inclusive number of nights of the stay
C32_ReportRevenueByNights ==
    /\ \A d \in ReportStarts :
         /\ generate_daily_report(reservations, rooms, d).revenue
                = RevenueForPeriod(flag_filter_reservations_by_period(reservations, d, d), rooms)
         /\ generate_weekly_report(reservations, rooms, d).revenue
                = RevenueForPeriod(
                      flag_filter_reservations_by_period(reservations, d, d + Week), rooms)
    /\ \A m \in Months :
         generate_monthly_report(reservations, rooms, m).revenue
             = RevenueForPeriod(
                   SelectSeq(reservations, LAMBDA r : startswith(r.dates[1], m)), rooms)

\* C33: the Generate Bill choice of each menu prints "Reservation not found"
\* only when the room has no matching reservation or is not in the catalog;
\* whenever a reservation and the room exist the amount is printed, 0 included
C33_ZeroBillShown ==
    last.op \in {"JsonFile.generate_bill", "Builtin.generate_bill", "hotel.generate_bill"}
        => (last.result.text = "Reservation not found." <=> ~Billable(last.roomNumber))

\* the stay of some reservation row of room n has started by the day now
StayStarted(rows, n, now) ==
    \E i \in 1..Len(rows) : rows[i].roomNumber = n /\ rows[i].checkInDate <= now

\* C34: check_in(room_number) enforces that the stay has started: it marks
\* the room occupied only when a reservation row of that room with check-in
\* date on or before now exists; otherwise the room's state is left unchanged
C34_CheckInEnforced ==
    [][(last'.op = "check_in" /\ ~StayStarted(reservations, last'.roomNumber, last'.result))
           => rooms' = rooms]_vars

\* C35: reservation rows are removed only by check_out: check_in never
\* deletes a row, and a row made by make_reservation stays in the table, in
\* its place, across every call other than check_out
C35_RowsRemovedByCheckOutOnly ==
    [][/\ last'.op = "check_in" => reservations' = reservations
       /\ last'.op # "check_out" =>
              /\ Len(reservations') >= Len(reservations)
              /\ SubSeq(reservations', 1, Len(reservations)) = reservations]_vars

\* C36: make_reservation inserts a reservation row and calls book_room only
\* when the customer exists and check_availability returned true, the
\* customer being checked first; when the customer is unknown or the room is
\* unavailable neither the reservations table nor the room state changes
C36_MakeReservationGuarded ==
    \A c \in Names, n \in RoomNumbers, d \in Ranges :
        LET after == make_reservation(customers, reservations, rooms, c, n, d[1], d[2])
            known == \E i \in 1..Len(customers) : customers[i].name = c
            free == room_manager_check_availability(rooms, reservations, n, d[1], d[2])
        IN  /\ ~known => after.printed = "not found"
            /\ (known /\ ~free) => after.printed = "not available"
            /\ ~(known /\ free) => (after.reservations = reservations /\ after.rooms = rooms)
            /\ (known /\ free) =>
                  /\ after.printed = "confirmed"
                  /\ Len(after.reservations) = Len(reservations) + 1
                  /\ SubSeq(after.reservations, 1, Len(reservations)) = reservations
                  /\ after.reservations[Len(after.reservations)].roomNumber = n
                  /\ after.reservations[Len(after.reservations)].checkInDate = d[1]
                  /\ after.reservations[Len(after.reservations)].checkOutDate = d[2]
                  /\ customers[after.reservations[Len(after.reservations)].customerID].name = c
                  /\ after.rooms = room_manager_book_room(rooms, n)

\* a reservation was refused for a known customer because the room is taken,
\* after a reservation of that room was confirmed
C36_Witness ==
    /\ last.op = "make_reservation"
    /\ last.result = "not available"
    /\ customers # <<>>
    /\ \E i \in 1..Len(reservations) : reservations[i].roomNumber = last.roomNumber
    /\ check_room_status(rooms, last.roomNumber) # None
    /\ ~check_room_status(rooms, last.roomNumber).available

\* every element of the collection before is in after, at its place
Extends(before, after) ==
    /\ Len(after) >= Len(before)
    /\ SubSeq(after, 1, Len(before)) = before

\* every room of the catalog before is in after, at its place, whatever its flag
KeepsRooms(before, after) ==
    /\ Len(after) >= Len(before)
    /\ \A i \in 1..Len(before) :
         /\ after[i].roomNumber = before[i].roomNumber
         /\ after[i].roomType = before[i].roomType
         /\ after[i].price = before[i].price

\* C37: nothing is ever deleted in the functional variant: whatever the menu
\* does next, the room catalog, the customer directory and the reservation
\* ledger keep every element they hold, in order, a room changing at most its
\* flag, and a name search_customer finds stays found; the same holds of what
\* add_customer, add_reservation and release_room return in any state
C37_NothingDeleted ==
    /\ [](/\ \A name \in Names :
               LET result == add_customer(customers, name, "contact", "card")
               IN  /\ Extends(customers, result)
                   /\ Len(result) = Len(customers) + 1
                   /\ search_customer(result, name) # None
                   /\ \A other \in Names :
                        search_customer(customers, other) # None
                            => search_customer(result, other)
                                   = search_customer(customers, other)
          /\ \A reservation \in Requests(Guests, Ranges) :
               LET result == add_reservation(reservations, rooms, reservation)
               IN  result # None => /\ Extends(reservations, result.reservations)
                                    /\ KeepsRooms(rooms, result.rooms)
                                    /\ Len(result.rooms) = Len(rooms)
          /\ \A n \in RoomNumbers :
               /\ KeepsRooms(rooms, release_room(rooms, n))
               /\ Len(release_room(rooms, n)) = Len(rooms))
    /\ [][/\ KeepsRooms(rooms, rooms')
          /\ Extends(customers, customers')
          /\ Extends(reservations, reservations')
          /\ KeepsRooms(rooms_json, rooms_json')
          /\ Extends(customers_json, customers_json')
          /\ Extends(reservations_json, reservations_json')]_vars

\* the catalog, the directory and the ledger have all grown, and a room of a
\* catalog of two has been booked and released since
C37_Witness ==
    /\ last.op = "release_room"
    /\ Len(rooms) = MaxRoom
    /\ Len(reservations) = MaxRes
    /\ Len(customers) = MaxCust
    /\ search_customer(customers, "Alice") # None
    /\ \E i \in 1..Len(rooms) : rooms[i].available /\ rooms[i].roomNumber = last.roomNumber
    /\ \E i \in 1..Len(reservations) : reservations[i].roomNumber = last.roomNumber

\* the objects the caller holds: the dicts of its rooms, reservations and
\* customers, in that order, and the tuples of references to them
CallerHeap == rooms \o reservations \o customers
CallerRooms == [i \in 1..Len(rooms) |-> i]
CallerReservations == [i \in 1..Len(reservations) |-> Len(rooms) + i]
CallerCustomers == [i \in 1..Len(customers) |-> Len(rooms) + Len(reservations) + i]

\* C38: value semantics: add_reservation, update_room_availability,
\* release_room and add_customer never modify the collections or records
\* passed to them: after the call every object the caller held is what it was
\* before, and the returned value alone carries the change
C38_ValueSemantics ==
    /\ \A n \in RoomNumbers, a \in BOOLEAN :
         LET after == obj_update_room_availability(CallerHeap, CallerRooms, n, a)
         IN  /\ Extends(CallerHeap, after.heap)
             /\ Deref(after.heap, after.result) = update_room_availability(rooms, n, a)
    /\ \A n \in RoomNumbers :
         LET after == obj_release_room(CallerHeap, CallerRooms, n)
         IN  /\ Extends(CallerHeap, after.heap)
             /\ Deref(after.heap, after.result) = release_room(rooms, n)
    /\ \A name \in Names :
         LET after == obj_add_customer(CallerHeap, CallerCustomers, name, "contact", "card")
         IN  /\ Extends(CallerHeap, after.heap)
             /\ Deref(after.heap, after.result)
                    = add_customer(customers, name, "contact", "card")
    /\ \A reservation \in Requests(Guests, Ranges) :
         LET heap == Append(CallerHeap, reservation)
             after == obj_add_reservation(heap, CallerReservations, CallerRooms, Len(heap))
             result == add_reservation(reservations, rooms, reservation)
         IN  /\ after = None <=> result = None
             /\ after # None =>
                  /\ Extends(heap, after.heap)
                  /\ Deref(after.heap, after.reservations) = result.reservations
                  /\ Deref(after.heap, after.rooms) = result.rooms

\* a customer has been added while the catalog holds a booked room and a free
\* one: an update of either room has a dict to replace and one to pass on
C38_Witness ==
    /\ last.op = "add_customer"
    /\ Len(rooms) = MaxRoom
    /\ reservations # <<>>
    /\ \E i \in 1..Len(rooms) : rooms[i].available
    /\ \E i \in 1..Len(rooms) : ~rooms[i].available

\* C39: check_room_status(rooms, n) returns the first room in catalog order
\* whose roomNumber is n, or None when no room has that number, and
\* check_if_room_exists(rooms, n) is true exactly when check_room_status(rooms,
\* n) is not None
C39_FirstMatchLookup ==
    \A n \in RoomNumbers :
        LET room == check_room_status(rooms, n)
        IN  /\ (\E i \in 1..Len(rooms) : rooms[i].roomNumber = n)
                   => room = FirstRoom(rooms, n)
            /\ ~(\E i \in 1..Len(rooms) : rooms[i].roomNumber = n) => room = None
            /\ check_if_room_exists(rooms, n) <=> room # None

\* a room has been looked up in a catalog holding its number twice, with
\* different records, and the first was returned
C39_Witness ==
    /\ last.op = "check_room_status"
    /\ Len(rooms) = 2
    /\ rooms[1].roomNumber = last.roomNumber
    /\ rooms[2].roomNumber = last.roomNumber
    /\ rooms[1] # rooms[2]
    /\ last.result = rooms[1]

====
